---- MODULE Spec2Model ----
(***************************************************************************)
(* Model of scripts/cleanup-test-data.py: main() logs in, lists the        *)
(* projects, filters out the seeded project and deletes every other one.   *)
(*                                                                         *)
(* The program is single-threaded; every urlopen() call blocks until the   *)
(* service answers, so each HTTP call is two steps: the request going out  *)
(* (appended to `sent`) and the answer coming back (appended to            *)
(* `received`).  The service is the environment: its answers are chosen    *)
(* nondeterministically from the sets below.                               *)
(*                                                                         *)
(* main() checks nothing about the decoded listing, so the listing bodies  *)
(* include entries without "id" or without "name", bodies that are not an  *)
(* array, and ids that urllib.request.Request rewrites when it is given    *)
(* the url built from them.                                                *)
(***************************************************************************)
EXTENDS Integers, Sequences, FiniteSets, TLC

VARIABLES
    pc,         \* position of main(): which statement runs next
    token,      \* line 17: the bearer token taken from the login answer
    projects,   \* line 22: the decoded listing body
    to_delete,  \* line 24: the filtered listing
    idx,        \* line 27: 1-based position of the for loop in to_delete
    sent,       \* every HTTP request passed to urlopen(), in order
    received,   \* the answer to every urlopen() call that has returned or raised
    stdout,     \* the lines printed so far
    exception   \* the exception that ended main() uncaught, or NoException

vars == <<pc, token, projects, to_delete, idx, sent, received, stdout, exception>>

----------------------------------------------------------------------------
\* Bounds of the model

\* longest listing the service returns
MaxListing == 3

----------------------------------------------------------------------------
\* Literals of the script

BASE == "http://localhost:3002"

BaselineId == "test-project-id"

NoToken == "<unset>"

NoException == "none"

Ok == "ok"

----------------------------------------------------------------------------
\* Decoded JSON values, tagged with their Python type

JsonArray(l) == [type |-> "list", value |-> l]

JsonObject(o) == [type |-> "dict", value |-> o]

JsonNull == [type |-> "NoneType"]

Unbound == [type |-> "unbound"]

----------------------------------------------------------------------------
\* What the service may answer

Tokens == {"tokA", "tokB"}

\* the last id differs from the baseline id by a trailing space
ProjectIds == {BaselineId, "p1", "p2", BaselineId \o " "}

ProjectNames == {"A", "B"}

\* listing entries: with both fields, without "name", without "id"
ProjectRecords ==
    [id : ProjectIds, name : ProjectNames] \cup {[id |-> "p2"]} \cup {[name |-> "A"]}

RECURSIVE SeqsUpTo(_, _)
SeqsUpTo(S, n) ==
    IF n = 0 THEN {<<>>}
    ELSE LET shorter == SeqsUpTo(S, n - 1)
         IN  shorter \cup {Append(s, x) : s \in {t \in shorter : Len(t) = n - 1}, x \in S}

Listings == SeqsUpTo(ProjectRecords, MaxListing)

\* str(e) of the exceptions urlopen() raises
HttpError401 == "HTTP Error 401: Unauthorized"

HttpError500 == "HTTP Error 500: Internal Server Error"

UrlError == "<urlopen error [Errno 111] Connection refused>"

\* a body json.load cannot decode
Garbage == [kind |-> "garbage"]

\* a body json.load decodes to v
Json(v) == [kind |-> "json", json |-> v]

Raised(e) == [error |-> e, body |-> Garbage]

Returned(b) == [error |-> Ok, body |-> b]

LoginResponses ==
    {Raised(e) : e \in {HttpError401, UrlError}}
        \cup {Returned(Garbage), Returned(Json(JsonNull))}
        \cup {Returned(Json(JsonObject([message |-> "Invalid credentials"])))}
        \cup {Returned(Json(JsonObject([token |-> t]))) : t \in Tokens}

ListResponses ==
    {Raised(e) : e \in {HttpError401, UrlError}}
        \cup {Returned(Garbage), Returned(Json(JsonNull))}
        \cup {Returned(Json(JsonObject([message |-> "Unauthorized"])))}
        \cup {Returned(Json(JsonObject(<<>>)))}
        \cup {Returned(Json(JsonArray(l))) : l \in Listings}

DeleteResponses == {Raised(e) : e \in {HttpError500, UrlError}} \cup {Returned(Garbage)}

----------------------------------------------------------------------------
\* urllib.request.Request(url, ...): the url it keeps and the path it requests

\* the characters str.strip() removes (those with str.isspace()), written raw where
\* the language has no escape: U+0009-U+000D, U+001C-U+001F, U+0020, U+0085,
\* U+00A0, U+1680.  The other sixteen (U+2000-U+200A, U+2028, U+2029, U+202F,
\* U+205F, U+3000) cannot be written in a string of this language, so no string
\* of the model holds them.
Whitespace ==
    {"\t", "\n", "", "\f", "\r",
     "", "", "", "",
     " ", "", " ", " "}

CharAt(s, i) == SubSeq(s, i, i)

\* str.strip()
RECURSIVE RStrip(_)
RStrip(s) ==
    IF Len(s) > 0 /\ CharAt(s, Len(s)) \in Whitespace
    THEN RStrip(SubSeq(s, 1, Len(s) - 1))
    ELSE s

RECURSIVE LStrip(_)
LStrip(s) ==
    IF Len(s) > 0 /\ CharAt(s, 1) \in Whitespace
    THEN LStrip(SubSeq(s, 2, Len(s)))
    ELSE s

\* urllib.parse.unwrap: the url starts with BASE, so only the strip applies
Unwrap(url) == RStrip(LStrip(url))

\* position of the last "#" of s at or before i, 0 when there is none
RECURSIVE LastTag(_, _)
LastTag(s, i) ==
    IF i = 0 THEN 0
    ELSE IF CharAt(s, i) = "#" THEN i
    ELSE LastTag(s, i - 1)

\* urllib.parse._splittag: the url without its fragment
WithoutTag(url) ==
    LET k == LastTag(url, Len(url))
    IN  IF k = 0 THEN url ELSE SubSeq(url, 1, k - 1)

\* the fragment, "" when there is none
Tag(url) ==
    LET k == LastTag(url, Len(url))
    IN  IF k = 0 THEN "" ELSE SubSeq(url, k + 1, Len(url))

\* Request.full_url: stripped, the fragment put back when it is not empty
FullUrl(url) ==
    LET u == Unwrap(url)
    IN  IF Tag(u) # "" THEN WithoutTag(u) \o "#" \o Tag(u) ELSE WithoutTag(u)

\* Request.selector: what follows the host, fragment excluded
Selector(url) ==
    LET u == WithoutTag(Unwrap(url))
    IN  SubSeq(u, Len(BASE) + 1, Len(u))

Request(method, url, auth, data) ==
    [method |-> method, url |-> FullUrl(url), selector |-> Selector(url),
     auth |-> auth, data |-> data]

----------------------------------------------------------------------------
\* Requests and printed lines

AuthHeader(tok) == "Bearer " \o tok

LoginRequest ==
    Request("POST", BASE \o "/auth/login", "",
            [email |-> "test@test.com", password |-> "test"])

ListRequest(tok) == Request("GET", BASE \o "/projects", AuthHeader(tok), <<>>)

\* (variant: the DELETE goes out without the Authorization header)
DeleteRequest_NoAuth(pid, tok) ==
    Request("DELETE", BASE \o "/projects/" \o pid, "", <<>>)

DeleteRequest(pid, tok) ==
    Request("DELETE", BASE \o "/projects/" \o pid, AuthHeader(tok), <<>>)

FoundLine(n) == "Found " \o ToString(n) \o " non-seeded projects to clean up"

DeletedLine(name, pid) == "  Deleted: " \o name \o " (" \o pid \o ")"

FailedLine(name, e) == "  Failed to delete " \o name \o ": " \o e

CompleteLine == "Cleanup complete"

----------------------------------------------------------------------------
\* Line 24: the list comprehension

Keep(p) == p.id # BaselineId

\* (variant: the kept projects are collected in reverse order)
RECURSIVE ListComprehension_Prepend(_)
ListComprehension_Prepend(ps) ==
    IF ps = <<>> THEN <<>>
    ELSE IF Keep(Head(ps)) THEN ListComprehension_Prepend(Tail(ps)) \o <<Head(ps)>>
         ELSE ListComprehension_Prepend(Tail(ps))

RECURSIVE ListComprehension(_)
ListComprehension(ps) ==
    IF ps = <<>> THEN <<>>
    ELSE IF Keep(Head(ps)) THEN <<Head(ps)>> \o ListComprehension(Tail(ps))
         ELSE ListComprehension(Tail(ps))

\* what line 24 raises: iterating None, subscripting the keys of a non-empty
\* dict with "id", or subscripting an entry that has no "id"
FilterException(v) ==
    IF v.type = "NoneType" THEN "TypeError"
    ELSE IF v.type = "dict" THEN
        IF DOMAIN v.value = {} THEN NoException ELSE "TypeError"
    ELSE IF \E i \in 1..Len(v.value) : "id" \notin DOMAIN v.value[i] THEN "KeyError"
    ELSE NoException

\* the entries line 24 iterates over (the keys of an empty dict: none)
Entries(v) == IF v.type = "list" THEN v.value ELSE <<>>

----------------------------------------------------------------------------
\* json.load(resp) and the subscript of line 17: the uncaught exception, if any

ExceptionClass(e) == IF e = UrlError THEN "URLError" ELSE "HTTPError"

LoginException(r) ==
    IF r.error # Ok THEN ExceptionClass(r.error)
    ELSE IF r.body.kind # "json" THEN "JSONDecodeError"
    ELSE IF r.body.json.type # "dict" THEN "TypeError"
    ELSE IF "token" \notin DOMAIN r.body.json.value THEN "KeyError"
    ELSE NoException

ListException(r) ==
    IF r.error # Ok THEN ExceptionClass(r.error)
    ELSE IF r.body.kind # "json" THEN "JSONDecodeError"
    ELSE NoException

----------------------------------------------------------------------------
Init ==
    /\ pc = "login"
    /\ token = NoToken
    /\ projects = Unbound
    /\ to_delete = <<>>
    /\ idx = 1
    /\ sent = <<>>
    /\ received = <<>>
    /\ stdout = <<>>
    /\ exception = NoException

\* Lines 11-16: the login request goes out
Login ==
    /\ pc = "login"
    /\ sent' = Append(sent, LoginRequest)
    /\ pc' = "login_wait"
    /\ UNCHANGED <<token, projects, to_delete, idx, received, stdout, exception>>

\* Lines 16-17: the login call returned a body holding a token
LoginSucceeded ==
    /\ pc = "login_wait"
    /\ \E r \in LoginResponses :
        /\ LoginException(r) = NoException
        /\ received' = Append(received, r)
        /\ token' = r.body.json.value.token
    /\ pc' = "list"
    /\ UNCHANGED <<projects, to_delete, idx, sent, stdout, exception>>

\* (variant: a failed login is swallowed and the run goes on without a token)
LoginFailed_Swallowed ==
    /\ pc = "login_wait"
    /\ \E r \in LoginResponses :
        /\ LoginException(r) # NoException
        /\ received' = Append(received, r)
    /\ token' = ""
    /\ pc' = "list"
    /\ UNCHANGED <<projects, to_delete, idx, sent, stdout, exception>>

\* Lines 16-17: urlopen, json.load or ["token"] raised; nothing catches it
LoginFailed ==
    /\ pc = "login_wait"
    /\ \E r \in LoginResponses :
        /\ LoginException(r) # NoException
        /\ received' = Append(received, r)
        /\ exception' = LoginException(r)
    /\ pc' = "crashed"
    /\ UNCHANGED <<token, projects, to_delete, idx, sent, stdout>>

\* Lines 20-21: the listing request goes out
GetProjects ==
    /\ pc = "list"
    /\ sent' = Append(sent, ListRequest(token))
    /\ pc' = "list_wait"
    /\ UNCHANGED <<token, projects, to_delete, idx, received, stdout, exception>>

\* Lines 21-22: the listing call returned a decodable body
GetProjectsSucceeded ==
    /\ pc = "list_wait"
    /\ \E r \in ListResponses :
        /\ ListException(r) = NoException
        /\ received' = Append(received, r)
        /\ projects' = r.body.json
    /\ pc' = "filter"
    /\ UNCHANGED <<token, to_delete, idx, sent, stdout, exception>>

\* (variant: a failed listing is treated as an empty listing)
GetProjectsFailed_Empty ==
    /\ pc = "list_wait"
    /\ \E r \in ListResponses :
        /\ ListException(r) # NoException
        /\ received' = Append(received, r)
    /\ projects' = JsonArray(<<>>)
    /\ pc' = "filter"
    /\ UNCHANGED <<token, to_delete, idx, sent, stdout, exception>>

\* Lines 21-22: urlopen or json.load raised; nothing catches it
GetProjectsFailed ==
    /\ pc = "list_wait"
    /\ \E r \in ListResponses :
        /\ ListException(r) # NoException
        /\ received' = Append(received, r)
        /\ exception' = ListException(r)
    /\ pc' = "crashed"
    /\ UNCHANGED <<token, projects, to_delete, idx, sent, stdout>>

\* (variant: the count printed is that of the whole listing)
Filter_CountsListing ==
    /\ pc = "filter"
    /\ FilterException(projects) = NoException
    /\ to_delete' = ListComprehension(Entries(projects))
    /\ stdout' = Append(stdout, FoundLine(Len(Entries(projects))))
    /\ idx' = 1
    /\ pc' = "loop"
    /\ UNCHANGED <<token, projects, sent, received, exception>>

\* Lines 24-25: filter the listing and print the count
Filter ==
    /\ pc = "filter"
    /\ FilterException(projects) = NoException
    /\ to_delete' = ListComprehension(Entries(projects))
    /\ stdout' = Append(stdout, FoundLine(Len(to_delete')))
    /\ idx' = 1
    /\ pc' = "loop"
    /\ UNCHANGED <<token, projects, sent, received, exception>>

\* Line 24: the comprehension raised; nothing catches it, to_delete stays unbound
FilterRaised ==
    /\ pc = "filter"
    /\ FilterException(projects) # NoException
    /\ exception' = FilterException(projects)
    /\ pc' = "crashed"
    /\ UNCHANGED <<token, projects, to_delete, idx, sent, received, stdout>>

\* Lines 27-36: the loop takes the next project, reads its id and its name,
\* and its DELETE goes out
DeleteProject ==
    /\ pc = "loop"
    /\ idx <= Len(to_delete)
    /\ "name" \in DOMAIN to_delete[idx]
    /\ sent' = Append(sent, DeleteRequest(to_delete[idx].id, token))
    /\ pc' = "delete_wait"
    /\ UNCHANGED <<token, projects, to_delete, idx, received, stdout, exception>>

\* Lines 27-29: the next project has no "name"; line 29 raises outside the try
DeleteProjectRaised ==
    /\ pc = "loop"
    /\ idx <= Len(to_delete)
    /\ "name" \notin DOMAIN to_delete[idx]
    /\ exception' = "KeyError"
    /\ pc' = "crashed"
    /\ UNCHANGED <<token, projects, to_delete, idx, sent, received, stdout>>

\* Lines 36-37: the DELETE returned; print the success line, next iteration
DeleteSucceeded ==
    /\ pc = "delete_wait"
    /\ \E r \in DeleteResponses :
        /\ r.error = Ok
        /\ received' = Append(received, r)
    /\ stdout' = Append(stdout, DeletedLine(to_delete[idx].name, to_delete[idx].id))
    /\ idx' = idx + 1
    /\ pc' = "loop"
    /\ UNCHANGED <<token, projects, to_delete, sent, exception>>

\* (variant: the handler swallows the exception without printing)
DeleteFailed_Silent ==
    /\ pc = "delete_wait"
    /\ \E r \in DeleteResponses :
        /\ r.error # Ok
        /\ received' = Append(received, r)
    /\ idx' = idx + 1
    /\ pc' = "loop"
    /\ UNCHANGED <<token, projects, to_delete, sent, stdout, exception>>

\* Lines 38-39: the DELETE raised; the handler prints it, next iteration
DeleteFailed ==
    /\ pc = "delete_wait"
    /\ \E r \in DeleteResponses :
        /\ r.error # Ok
        /\ received' = Append(received, r)
        /\ stdout' = Append(stdout, FailedLine(to_delete[idx].name, r.error))
    /\ idx' = idx + 1
    /\ pc' = "loop"
    /\ UNCHANGED <<token, projects, to_delete, sent, exception>>

\* Line 41: the loop is exhausted
Complete ==
    /\ pc = "loop"
    /\ idx > Len(to_delete)
    /\ stdout' = Append(stdout, CompleteLine)
    /\ pc' = "done"
    /\ UNCHANGED <<token, projects, to_delete, idx, sent, received, exception>>

Next ==
    \/ Login
    \/ LoginSucceeded
    \/ LoginFailed
    \/ GetProjects
    \/ GetProjectsSucceeded
    \/ GetProjectsFailed
    \/ Filter
    \/ FilterRaised
    \/ DeleteProject
    \/ DeleteProjectRaised
    \/ DeleteSucceeded
    \/ DeleteFailed
    \/ Complete

Spec == Init /\ [][Next]_vars

----------------------------------------------------------------------------
\* Observations used by the properties

IsDelete(q) == q.method = "DELETE"

\* the DELETE requests issued so far, in order
Deletes == SelectSeq(sent, IsDelete)

\* the answers to the DELETE requests (the login and the listing come first)
DeleteAnswers == IF Len(received) <= 2 THEN <<>> ELSE SubSeq(received, 3, Len(received))

Terminated == pc \in {"done", "crashed"}

\* line 24 has run to its end: the "Found N" line of line 25 is out
Filtered == Len(stdout) >= 1

LoginAnswerIsFailure(r) ==
    \/ r.error # "ok"
    \/ r.body.kind # "json"
    \/ r.body.json.type # "dict"
    \/ "token" \notin DOMAIN r.body.json.value

ListAnswerIsFailure(r) ==
    \/ r.error # "ok"
    \/ r.body.kind # "json"

ListingSucceeded == Len(received) >= 2 /\ ~ListAnswerIsFailure(received[2])

----------------------------------------------------------------------------
\* C1: no DELETE request is ever issued for the baseline project: no DELETE
\* goes to the baseline project's path /projects/test-project-id, whatever
\* the listing holds.
C1_BaselineNeverDeleted ==
    \A i \in 1..Len(sent) :
        sent[i].method = "DELETE" => sent[i].selector # "/projects/test-project-id"

\* C2: whenever line 24 produces to_delete, it is the sub-sequence of the
\* listing made of the projects whose id differs from the baseline id, in the
\* listing's order.
C2_FilterIsSelect ==
    Filtered =>
        /\ projects.type = "list" \/ (projects.type = "dict" /\ to_delete = <<>>)
        /\ projects.type = "list" =>
            to_delete = SelectSeq(projects.value, LAMBDA p : p.id # "test-project-id")

\* a filtered listing with the baseline project between two different other projects
C2_Witness ==
    /\ Filtered
    /\ projects.type = "list"
    /\ Len(projects.value) = 3
    /\ projects.value[2].id = "test-project-id"
    /\ projects.value[1].id = "p2"
    /\ projects.value[3].id = "p1"
    /\ Len(to_delete) = 2

\* C3: a failed DELETE never aborts the batch: after a DELETE for the j-th
\* filtered project failed the run does not crash, and when the run has ended a
\* DELETE was issued for every project that follows it in the filtered sequence.
C3_FailureDoesNotAbort ==
    \A j \in 1..Len(DeleteAnswers) :
        DeleteAnswers[j].error # "ok" =>
            /\ pc # "crashed"
            /\ pc = "loop" => idx = Len(DeleteAnswers) + 1
            /\ Terminated =>
                /\ Len(Deletes) = Len(to_delete)
                /\ \A k \in (j + 1)..Len(to_delete) :
                    Deletes[k].selector = "/projects/" \o to_delete[k].id

\* C4: when the login call fails (error answer, unreachable service,
\* undecodable body, no token field) the run is over and the login request is
\* the only request ever issued.
C4_LoginFailureIsFatal ==
    (Len(received) >= 1 /\ LoginAnswerIsFailure(received[1])) =>
        /\ pc = "crashed"
        /\ Len(sent) = 1
        /\ sent[1].url = "http://localhost:3002/auth/login"

\* the login answer was a decodable body without a token field
C4_Witness ==
    /\ Len(received) = 1
    /\ received[1].error = "ok"
    /\ received[1].body.kind = "json"
    /\ received[1].body.json.type = "dict"
    /\ "token" \notin DOMAIN received[1].body.json.value
    /\ pc = "crashed"

\* C5: when the listing call fails (transport or decoding error) after a
\* successful login the run is over with no DELETE issued and nothing printed
\* (neither the "Found N" line nor "Cleanup complete").
C5_ListFailureIsFatal ==
    (Len(received) >= 2 /\ ListAnswerIsFailure(received[2])) =>
        /\ pc = "crashed"
        /\ Len(sent) = 2
        /\ Deletes = <<>>
        /\ stdout = <<>>

\* the login succeeded and the listing body could not be decoded
C5_Witness ==
    /\ Len(received) = 2
    /\ ~LoginAnswerIsFailure(received[1])
    /\ received[2].error = "ok"
    /\ received[2].body.kind # "json"
    /\ pc = "crashed"

CompletePrinted == \E i \in 1..Len(stdout) : stdout[i] = "Cleanup complete"

EndedNormally ==
    /\ pc = "done"
    /\ exception = "none"
    /\ stdout[Len(stdout)] = "Cleanup complete"

\* C6: a run whose login and listing succeeded (line 24 accepted the listing
\* and the "Found N" line is out) ends normally with "Cleanup complete"
\* printed, whatever DELETE calls succeed or fail: it never ends in an uncaught
\* exception, and "Cleanup complete" is printed only once every filtered
\* project had its DELETE issued and answered.
C6_CompletesOnceListed ==
    Filtered =>
        /\ pc # "crashed"
        /\ Terminated => EndedNormally
        /\ CompletePrinted =>
            /\ Len(Deletes) = Len(to_delete)
            /\ Len(DeleteAnswers) = Len(to_delete)

\* C7: in a run whose login and listing succeeded the DELETE requests are,
\* one for one and in order, those of the filtered sequence: the k-th DELETE
\* goes to the path /projects/{id} of the k-th filtered project, and a run that
\* has ended issued exactly one per project.
C7_OneDeletePerProject ==
    /\ Len(Deletes) <= Len(to_delete)
    /\ \A k \in 1..Len(Deletes) :
        /\ Deletes[k].method = "DELETE"
        /\ Deletes[k].selector = "/projects/" \o to_delete[k].id
    /\ (ListingSucceeded /\ Terminated) => Len(Deletes) = Len(to_delete)
    /\ ~ListingSucceeded => Deletes = <<>>

OnlyBaseline ==
    /\ projects.type = "list"
    /\ \A i \in 1..Len(projects.value) :
        /\ "id" \in DOMAIN projects.value[i]
        /\ projects.value[i].id = "test-project-id"

\* C8: when the listing holds no project other than the baseline, no DELETE
\* is issued and the output is the "Found 0" line followed at once by
\* "Cleanup complete".
C8_NothingToDelete ==
    (pc # "filter" /\ ListingSucceeded /\ OnlyBaseline) =>
        /\ Deletes = <<>>
        /\ pc \in {"loop", "done"}
        /\ stdout[1] = "Found 0 non-seeded projects to clean up"
        /\ pc = "loop" => Len(stdout) = 1
        /\ pc = "done" =>
            stdout = <<"Found 0 non-seeded projects to clean up", "Cleanup complete">>

\* a finished run whose listing held the baseline project, twice, and nothing else
C8_Witness ==
    /\ pc = "done"
    /\ OnlyBaseline
    /\ Len(projects.value) = 2

\* at most one request is unanswered; the requests are login, list, then
\* DELETEs; each one goes out only after the previous answer; the list request
\* and every DELETE carry the token of the login answer
C9_Sequential ==
    /\ Len(received) <= Len(sent)
    /\ Len(sent) <= Len(received) + 1
    /\ Len(sent) >= 1 => (sent[1].method = "POST" /\ sent[1].auth = "")
    /\ Len(sent) >= 2 =>
        /\ ~LoginAnswerIsFailure(received[1])
        /\ sent[2].method = "GET"
        /\ sent[2].url = "http://localhost:3002/projects"
    /\ Len(sent) >= 3 => ~ListAnswerIsFailure(received[2])
    /\ \A i \in 3..Len(sent) : sent[i].method = "DELETE"
    /\ \A i \in 2..Len(sent) :
        sent[i].auth = "Bearer " \o received[1].body.json.value.token
    /\ Len(received) >= 1 /\ ~LoginAnswerIsFailure(received[1]) =>
        token = received[1].body.json.value.token

\* C9: requests are strictly sequential (login, then list, then the
\* DELETEs, each after the previous answer), all of them after the login
\* carry the token of that login, and the token never changes once set.
C9_SequentialSameToken ==
    /\ []C9_Sequential
    /\ [][token # NoToken => token' = token]_vars

\* a second DELETE is in flight, carrying the login's token "tokB"
C9_Witness ==
    /\ pc = "delete_wait"
    /\ Len(sent) = 4
    /\ Len(received) = 3
    /\ received[1].body.json.value.token = "tokB"
    /\ sent[4].auth = "Bearer tokB"

OutcomeLine(p, r) ==
    IF r.error = "ok"
    THEN "  Deleted: " \o p.name \o " (" \o p.id \o ")"
    ELSE "  Failed to delete " \o p.name \o ": " \o r.error

\* C10: every DELETE issued has, once answered, exactly one outcome line,
\* printed before the next DELETE goes out: after the "Found N" line the k-th
\* line is the "Deleted" line (name and id) when the k-th DELETE returned and
\* the "Failed to delete" line (name and error) when it raised; a completed run
\* printed N of them.
C10_OneOutcomeLinePerDelete ==
    /\ ~Filtered => Deletes = <<>>
    /\ Filtered =>
        /\ stdout[1] = "Found " \o ToString(Len(to_delete)) \o " non-seeded projects to clean up"
        /\ Len(stdout) = 1 + Len(DeleteAnswers) + (IF pc = "done" THEN 1 ELSE 0)
        /\ Len(Deletes) - Len(DeleteAnswers) \in {0, 1}
        /\ \A k \in 1..Len(DeleteAnswers) :
            stdout[1 + k] = OutcomeLine(to_delete[k], DeleteAnswers[k])
        /\ pc = "done" => Len(DeleteAnswers) = Len(to_delete)

\* a finished run with one "Deleted" line and one "Failed to delete" line
C10_Witness ==
    /\ pc = "done"
    /\ Len(to_delete) = 2
    /\ DeleteAnswers[1].error = "ok"
    /\ DeleteAnswers[2].error = "<urlopen error [Errno 111] Connection refused>"
    /\ stdout[2] = "  Deleted: A (p1)"
    /\ stdout[3] = "  Failed to delete B: <urlopen error [Errno 111] Connection refused>"

====
